---- MODULE Spec2Model ----
(***************************************************************************)
(* Model of the telescope interpreter: the builtin procedures of           *)
(* src/src/ops.rs and the read-eval-print loop of src/src/main.rs.         *)
(*                                                                         *)
(* Two specifications:                                                     *)
(*   SpecOps  one call of one builtin on an argument slice drawn from a    *)
(*            bounded set (Init draws the call, Call applies it);          *)
(*   Spec     the top-level loop of main(), one line per iteration.        *)
(*                                                                         *)
(* util.rs, types.rs, eval.rs and the parser are not part of the sources   *)
(* at hand; the few operators that stand for them (ensure_args,            *)
(* ensure_min_args, is_num, is_flt, boolean, truthiness, EvalLine) follow  *)
(* the written specification and are marked as such in the map.            *)
(***************************************************************************)
EXTENDS Integers, Sequences, FiniteSets, TLC

VARIABLES pc, readline, result, stdout, fname, args, ret

vars == <<pc, readline, result, stdout, fname, args, ret>>

(***************************************************************************)
(* Bounds of the model.                                                    *)
(***************************************************************************)
\* longest argument slice handed to a builtin
MaxArgs == 3
\* Int arguments range over -MaxInt..MaxInt; no builtin overflows an i64 on
\* these, so the overflow behaviour of +, -, * and / is outside the model
MaxInt == 2
\* longest List / Vector argument
MaxSeqLen == 3

(***************************************************************************)
(* Expr values (types::Expr as used by ops.rs).                            *)
(***************************************************************************)
Nil == [k |-> "Nil"]
Int_(i) == [k |-> "Int", v |-> i]
Flt(f) == [k |-> "Flt", v |-> f]
Str(s) == [k |-> "Str", v |-> s]
Bool(b) == [k |-> "Bool", v |-> b]
List(l) == [k |-> "List", v |-> l]
Vector(l) == [k |-> "Vector", v |-> l]
Function(name) == [k |-> "Function", v |-> name]

(***************************************************************************)
(* f64.  A finite value is the rational n/d in lowest terms with d > 0;    *)
(* rounding is not modelled.  The sign of zero, the infinities and NaN     *)
(* are kept, since 1/x and x/y produce them.                               *)
(***************************************************************************)
F(n, d) == [c |-> "fin", n |-> n, d |-> d]
NegZero == [c |-> "nzero", n |-> 0, d |-> 1]
Inf == [c |-> "inf", n |-> 0, d |-> 1]
NegInf == [c |-> "ninf", n |-> 0, d |-> 1]
NaN == [c |-> "nan", n |-> 0, d |-> 1]

Abs(x) == IF x < 0 THEN -x ELSE x

RECURSIVE Gcd(_, _)
Gcd(a, b) == IF b = 0 THEN a ELSE Gcd(b, a % b)

\* the finite value n/d (d # 0) in lowest terms; a zero takes the sign neg
Rat(n, d, neg) ==
    IF n = 0 THEN (IF neg THEN NegZero ELSE F(0, 1))
    ELSE LET g == Gcd(Abs(n), Abs(d))
             s == IF d < 0 THEN -1 ELSE 1
         IN  F((s * n) \div g, (s * d) \div g)

IsZero(a) == a.c = "nzero" \/ (a.c = "fin" /\ a.n = 0)
IsInf(a) == a.c \in {"inf", "ninf"}
\* sign bit
IsNeg(a) == a.c \in {"nzero", "ninf"} \/ (a.c = "fin" /\ a.n < 0)

\* `y as f64`
FromInt(i) == F(i, 1)

FNeg(a) ==
    CASE a.c = "nan" -> NaN
      [] a.c = "inf" -> NegInf
      [] a.c = "ninf" -> Inf
      [] a.c = "nzero" -> F(0, 1)
      [] OTHER -> IF a.n = 0 THEN NegZero ELSE F(-a.n, a.d)

FAdd(a, b) ==
    CASE a.c = "nan" \/ b.c = "nan" -> NaN
      [] IsInf(a) /\ IsInf(b) -> IF a.c = b.c THEN a ELSE NaN
      [] IsInf(a) -> a
      [] IsInf(b) -> b
      [] OTHER -> Rat(a.n * b.d + b.n * a.d, a.d * b.d,
                      a.c = "nzero" /\ b.c = "nzero")

FSub(a, b) == FAdd(a, FNeg(b))

FMul(a, b) ==
    LET neg == IsNeg(a) # IsNeg(b)
    IN  CASE a.c = "nan" \/ b.c = "nan" -> NaN
          [] (IsInf(a) /\ IsZero(b)) \/ (IsZero(a) /\ IsInf(b)) -> NaN
          [] IsInf(a) \/ IsInf(b) -> IF neg THEN NegInf ELSE Inf
          [] OTHER -> Rat(a.n * b.n, a.d * b.d, neg)

FDiv(a, b) ==
    LET neg == IsNeg(a) # IsNeg(b)
    IN  CASE a.c = "nan" \/ b.c = "nan" -> NaN
          [] (IsInf(a) /\ IsInf(b)) \/ (IsZero(a) /\ IsZero(b)) -> NaN
          [] IsInf(a) \/ IsZero(b) -> IF neg THEN NegInf ELSE Inf
          [] IsInf(b) -> IF neg THEN NegZero ELSE F(0, 1)
          [] OTHER -> Rat(a.n * b.d, a.d * b.n, neg)

\* a < b on f64: false as soon as an operand is NaN, and -0.0 = 0.0
FLt(a, b) ==
    CASE a.c = "nan" \/ b.c = "nan" -> FALSE
      [] a.c = "inf" \/ b.c = "ninf" -> FALSE
      [] a.c = "ninf" \/ b.c = "inf" -> TRUE
      [] OTHER -> a.n * b.d < b.n * a.d

FEq(a, b) ==
    CASE a.c = "nan" \/ b.c = "nan" -> FALSE
      [] IsInf(a) \/ IsInf(b) -> a.c = b.c
      [] OTHER -> a.n * b.d = b.n * a.d

FLe(a, b) == FLt(a, b) \/ FEq(a, b)

(***************************************************************************)
(* String: a sequence of character codes, ordered as Rust orders str       *)
(* (lexicographically by byte).                                            *)
(***************************************************************************)
RECURSIVE StrLt(_, _)
StrLt(a, b) ==
    IF b = <<>> THEN FALSE
    ELSE IF a = <<>> THEN TRUE
    ELSE IF a[1] # b[1] THEN a[1] < b[1]
    ELSE StrLt(Tail(a), Tail(b))

StrLe(a, b) == a = b \/ StrLt(a, b)

(***************************************************************************)
(* Result<Expr>, and the outcome of a call that does not return.           *)
(***************************************************************************)
Ok(v) == [tag |-> "Ok", val |-> v]
\* ErrorKind::Msg(String)
ErrMsg(m) == [tag |-> "Err", kind |-> "Msg", msg |-> m]
\* ErrorKind::Exit(i32)
ErrExit(code) == [tag |-> "Err", kind |-> "Exit", code |-> code]
\* ErrorKind::Parse
ErrParse == [tag |-> "Err", kind |-> "Parse"]
\* ErrorKind::Eof
ErrEof == [tag |-> "Err", kind |-> "Eof"]
\* thread 'main' panicked: the call unwinds and nothing is returned
Panic(why) == [tag |-> "Panic", why |-> why]

IsOk(r) == r.tag = "Ok"
IsErr(r) == r.tag = "Err"
IsPanic(r) == r.tag = "Panic"

(***************************************************************************)
(* Helpers of util.rs and types.rs that ops.rs calls.                      *)
(***************************************************************************)
\* ensure_args(name, args, n)?: exactly n arguments
ensure_args(name, as, n) ==
    IF Len(as) = n THEN Ok(Nil) ELSE ErrMsg("wrong number of arguments")

\* ensure_min_args(name, args, n)?: at least n arguments
ensure_min_args(name, as, n) ==
    IF Len(as) >= n THEN Ok(Nil) ELSE ErrMsg("wrong number of arguments")

is_num(x) == x.k \in {"Int", "Flt"}
is_flt(x) == x.k = "Flt"

\* Expr::boolean(): Some(b) for Bool(b), None otherwise
boolean(x) == IF x.k = "Bool" THEN <<x.v>> ELSE <<>>

\* Expr::truthiness()
truthiness(x) ==
    CASE x.k = "Bool" -> x.v
      [] x.k = "Nil" -> FALSE
      [] OTHER -> TRUE

\* PartialEq for Expr: same variant and equal payload, f64 payloads by ==
RECURSIVE ExprEq(_, _)
ExprEq(a, b) ==
    CASE a.k # b.k -> FALSE
      [] a.k = "Nil" -> TRUE
      [] a.k = "Flt" -> FEq(a.v, b.v)
      [] a.k \in {"List", "Vector"} ->
            /\ Len(a.v) = Len(b.v)
            /\ \A i \in 1..Len(a.v) : ExprEq(a.v[i], b.v[i])
      [] OTHER -> a.v = b.v

(***************************************************************************)
(* Slices and iterators.                                                   *)
(***************************************************************************)
\* args[i] with Rust's 0-based index; the caller checks InRange first
At(as, i) == as[i + 1]
InRange(as, i) == i < Len(as)
OutOfBounds == Panic("index out of bounds")

\* s[1..]
From1(s) == SubSeq(s, 2, Len(s))

\* i64 division truncates toward zero
IDiv(a, b) ==
    IF (a < 0) = (b < 0) THEN Abs(a) \div Abs(b) ELSE -(Abs(a) \div Abs(b))

\* the i64 operator named op: Add::add (sum), Sub::sub, Mul::mul (product),
\* Div::div
IOp(op, a, b) ==
    CASE op = "+" -> a + b
      [] op = "-" -> a - b
      [] op = "*" -> a * b
      [] op = "/" -> IDiv(a, b)

\* the f64 operator named op
FOp(op, a, b) ==
    CASE op = "+" -> FAdd(a, b)
      [] op = "-" -> FSub(a, b)
      [] op = "*" -> FMul(a, b)
      [] op = "/" -> FDiv(a, b)

\* iter().fold(acc, op) over i64, left to right
RECURSIVE fold_i64(_, _, _)
fold_i64(op, acc, s) ==
    IF s = <<>> THEN acc ELSE fold_i64(op, IOp(op, acc, Head(s)), Tail(s))

\* iter().fold(acc, op) over f64, left to right
RECURSIVE fold_f64(_, _, _)
fold_f64(op, acc, s) ==
    IF s = <<>> THEN acc ELSE fold_f64(op, FOp(op, acc, Head(s)), Tail(s))

\* map(|&x| if x == 0 { Err } else { Ok(x) }).fold_results(acc, Div::div):
\* stops at the first Err
RECURSIVE fold_results(_, _)
fold_results(acc, s) ==
    IF s = <<>> THEN Ok(acc)
    ELSE IF Head(s) = 0 THEN ErrMsg("division by zero")
    ELSE fold_results(IDiv(acc, Head(s)), Tail(s))

(***************************************************************************)
(* The builtins of ops.rs.                                                 *)
(***************************************************************************)
\* the closures the four operators hand to numeric_op
add_int(ints) == Ok(fold_i64("+", 0, ints))
\* sum::<f64>() starts from 0.0
add_flt(floats) == Ok(fold_f64("+", F(0, 1), floats))
sub_int(ints) == Ok(fold_i64("-", ints[1], From1(ints)))
sub_flt(floats) == Ok(fold_f64("-", floats[1], From1(floats)))
mul_int(ints) == Ok(fold_i64("*", 1, ints))
mul_flt(floats) == Ok(fold_f64("*", F(1, 1), floats))
int_div(ints) == fold_results(ints[1], From1(ints))
div_flt(floats) == Ok(fold_f64("/", floats[1], From1(floats)))

\* fn_int and fn_flt as passed by the operator called name
fn_int(name, ints) ==
    CASE name = "+" -> add_int(ints)
      [] name = "-" -> sub_int(ints)
      [] name = "*" -> mul_int(ints)
      [] name = "/" -> int_div(ints)

fn_flt(name, floats) ==
    CASE name = "+" -> add_flt(floats)
      [] name = "-" -> sub_flt(floats)
      [] name = "*" -> mul_flt(floats)
      [] name = "/" -> div_flt(floats)

numeric_op(name, as) ==
    IF \A i \in 1..Len(as) : is_num(as[i])
    THEN IF \E i \in 1..Len(as) : is_flt(as[i])
         THEN LET floats == [i \in 1..Len(as) |->
                                IF as[i].k = "Int" THEN FromInt(as[i].v)
                                                   ELSE as[i].v]
                  r == fn_flt(name, floats)
              IN  IF IsOk(r) THEN Ok(Flt(r.val)) ELSE r
         ELSE LET ints == [i \in 1..Len(as) |-> as[i].v]
                  r == fn_int(name, ints)
              IN  IF IsOk(r) THEN Ok(Int_(r.val)) ELSE r
    ELSE ErrMsg("#[" \o name \o "] expected numeric")

add(as) == numeric_op("+", as)

sub(as) ==
    LET e == ensure_min_args("-", as, 1)
    IN  IF IsErr(e) THEN e
        ELSE IF ~(\A i \in 1..Len(as) : is_num(as[i]))
             THEN ErrMsg("#[-] expected numeric")
        ELSE IF Len(as) = 1
             THEN CASE At(as, 0).k = "Int" -> Ok(Int_(-At(as, 0).v))
                    [] At(as, 0).k = "Flt" -> Ok(Flt(FNeg(At(as, 0).v)))
                    [] OTHER -> ErrMsg("invalid type")
        ELSE numeric_op("-", as)

mul(as) == numeric_op("*", as)

div(as) ==
    LET e == ensure_min_args("[/]", as, 1)
    IN  IF IsErr(e) THEN e
        ELSE IF ~(\A i \in 1..Len(as) : is_num(as[i]))
             THEN ErrMsg("#[-] expected numeric")
        ELSE IF Len(as) = 1
             THEN CASE At(as, 0).k = "Int" ->
                         Ok(Flt(FDiv(F(1, 1), FromInt(At(as, 0).v))))
                    [] At(as, 0).k = "Flt" -> Ok(Flt(FDiv(F(1, 1), At(as, 0).v)))
                    [] OTHER -> ErrMsg("invalid type")
        ELSE numeric_op("/", as)

equal(as) ==
    LET e == ensure_args("[=]", as, 2)
    IN  IF IsErr(e) THEN e ELSE Ok(Bool(ExprEq(At(as, 0), At(as, 1))))

ComparisonUndefined(a, b) ==
    [tag |-> "Err", kind |-> "Msg", msg |-> "comparison undefined for: {}, {}",
     a |-> a, b |-> b]

\* less, had it promoted an Int operand to compare it with a Flt
less_promoting(as) ==
    LET e == ensure_args("[<]", as, 2)
        a == At(as, 0)
        b == At(as, 1)
        fl(x) == IF x.k = "Int" THEN FromInt(x.v) ELSE x.v
    IN  IF IsErr(e) THEN e
        ELSE CASE a.k = "Int" /\ b.k = "Int" -> Ok(Bool(a.v < b.v))
               [] is_num(a) /\ is_num(b) -> Ok(Bool(FLt(fl(a), fl(b))))
               [] a.k = "Str" /\ b.k = "Str" -> Ok(Bool(StrLt(a.v, b.v)))
               [] OTHER -> ComparisonUndefined(a, b)

less(as) ==
    LET e == ensure_args("[<]", as, 2)
        a == At(as, 0)
        b == At(as, 1)
    IN  IF IsErr(e) THEN e
        ELSE CASE a.k = "Int" /\ b.k = "Int" -> Ok(Bool(a.v < b.v))
               [] a.k = "Flt" /\ b.k = "Flt" -> Ok(Bool(FLt(a.v, b.v)))
               [] a.k = "Str" /\ b.k = "Str" -> Ok(Bool(StrLt(a.v, b.v)))
               [] OTHER -> ComparisonUndefined(a, b)

less_eq(as) ==
    LET e == ensure_args("[<=]", as, 2)
        a == At(as, 0)
        b == At(as, 1)
    IN  IF IsErr(e) THEN e
        ELSE CASE a.k = "Int" /\ b.k = "Int" -> Ok(Bool(a.v <= b.v))
               [] a.k = "Flt" /\ b.k = "Flt" -> Ok(Bool(FLe(a.v, b.v)))
               [] a.k = "Str" /\ b.k = "Str" -> Ok(Bool(StrLe(a.v, b.v)))
               [] OTHER -> ComparisonUndefined(a, b)

greater(as) ==
    LET e == ensure_args("[>]", as, 2)
        a == At(as, 0)
        b == At(as, 1)
    IN  IF IsErr(e) THEN e
        ELSE CASE a.k = "Int" /\ b.k = "Int" -> Ok(Bool(a.v > b.v))
               [] a.k = "Flt" /\ b.k = "Flt" -> Ok(Bool(FLt(b.v, a.v)))
               [] a.k = "Str" /\ b.k = "Str" -> Ok(Bool(StrLt(b.v, a.v)))
               [] OTHER -> ComparisonUndefined(a, b)

greater_eq(as) ==
    LET e == ensure_args("[>=]", as, 2)
        a == At(as, 0)
        b == At(as, 1)
    IN  IF IsErr(e) THEN e
        ELSE CASE a.k = "Int" /\ b.k = "Int" -> Ok(Bool(a.v >= b.v))
               [] a.k = "Flt" /\ b.k = "Flt" -> Ok(Bool(FLe(b.v, a.v)))
               [] a.k = "Str" /\ b.k = "Str" -> Ok(Bool(StrLe(b.v, a.v)))
               [] OTHER -> ComparisonUndefined(a, b)

not(as) ==
    LET e == ensure_args("[not]", as, 1)
    IN  IF IsErr(e) THEN e ELSE Ok(Bool(~truthiness(At(as, 0))))

\* map(|a| a.boolean()).collect::<Option<Vec<_>>>(): None as soon as one
\* element is None
collect_booleans(as) ==
    IF \E i \in 1..Len(as) : boolean(as[i]) = <<>>
    THEN <<>>
    ELSE <<[i \in 1..Len(as) |-> boolean(as[i])[1]]>>

\* and, had it stopped at the first false argument
RECURSIVE and_short_circuit(_)
and_short_circuit(as) ==
    IF as = <<>> THEN Ok(Bool(TRUE))
    ELSE IF boolean(Head(as)) = <<>>
         THEN ErrMsg("#[and] expected boolean argument")
    ELSE IF ~boolean(Head(as))[1] THEN Ok(Bool(FALSE))
    ELSE and_short_circuit(Tail(as))

and(as) ==
    LET bools == collect_booleans(as)
    IN  IF bools = <<>> THEN ErrMsg("#[and] expected boolean argument")
        ELSE Ok(Bool(\A i \in 1..Len(bools[1]) : bools[1][i]))

or(as) ==
    LET bools == collect_booleans(as)
    IN  IF bools = <<>> THEN ErrMsg("#[or] expected boolean argument")
        ELSE Ok(Bool(\E i \in 1..Len(bools[1]) : bools[1][i]))

print(as) ==
    LET e == ensure_args("#[print]", as, 1)
    IN  IF IsErr(e) THEN e ELSE Ok(Nil)

\* what print writes to standard output: println!("{}", args[0])
print_out(as) ==
    IF IsErr(ensure_args("#[print]", as, 1)) THEN <<>>
    ELSE <<[shown |-> "value", of |-> At(as, 0)]>>

first(as) ==
    LET e == ensure_args("#[first]", as, 1)
        a == At(as, 0)
    IN  IF IsErr(e) THEN e
        ELSE IF a.k \in {"List", "Vector"}
             THEN IF a.v = <<>> THEN Ok(Nil) ELSE Ok(a.v[1])
        ELSE ErrMsg("#[first] expected list")

\* rest, had its Vector arm been copied from the List arm unchanged
rest_as_list(as) ==
    IF ~InRange(as, 0) THEN OutOfBounds
    ELSE LET a == At(as, 0)
         IN  CASE a.k \in {"List", "Vector"} ->
                    IF a.v = <<>> THEN Ok(Nil) ELSE Ok(List(Tail(a.v)))
               [] OTHER -> ErrMsg("#[rest] expected list")

rest(as) ==
    IF ~InRange(as, 0) THEN OutOfBounds
    ELSE LET a == At(as, 0)
         IN  CASE a.k = "List" ->
                    IF a.v = <<>> THEN Ok(Nil) ELSE Ok(List(Tail(a.v)))
               [] a.k = "Vector" ->
                    IF a.v = <<>> THEN Ok(Nil) ELSE Ok(Vector(Tail(a.v)))
               [] OTHER -> ErrMsg("#[rest] expected list")

cons(as) ==
    LET e == ensure_args("cons]", as, 2)
    IN  IF IsErr(e) THEN e
        ELSE IF ~InRange(as, 2) THEN OutOfBounds
        ELSE LET s == At(as, 2)
             IN  CASE s.k = "List" -> Ok(List(<<At(as, 1)>> \o s.v))
                   [] s.k = "Vector" -> Ok(Vector(Append(s.v, At(as, 1))))
                   [] OTHER -> ErrMsg("#[cons] expected list")

exit(as) == ErrExit(0)

\* the table of env(): symbol -> Lambda
Builtins ==
    {"not", "or", "and", "print", "+", "-", "*", "/", "=", "<", "<=", ">",
     ">=", "first", "rest", "cons", "exit"}

\* calling the Lambda bound to symbol f
Apply(f, as) ==
    CASE f = "not" -> not(as)
      [] f = "or" -> or(as)
      [] f = "and" -> and(as)
      [] f = "print" -> print(as)
      [] f = "+" -> add(as)
      [] f = "-" -> sub(as)
      [] f = "*" -> mul(as)
      [] f = "/" -> div(as)
      [] f = "=" -> equal(as)
      [] f = "<" -> less(as)
      [] f = "<=" -> less_eq(as)
      [] f = ">" -> greater(as)
      [] f = ">=" -> greater_eq(as)
      [] f = "first" -> first(as)
      [] f = "rest" -> rest(as)
      [] f = "cons" -> cons(as)
      [] f = "exit" -> exit(as)

\* what the call writes to standard output
ApplyOut(f, as) == IF f = "print" THEN print_out(as) ELSE <<>>

(***************************************************************************)
(* Inputs.                                                                 *)
(***************************************************************************)
IntVals == (-MaxInt)..MaxInt
\* 0.0 and 1.5
FltVals == {F(0, 1), F(3, 2)}
\* "a", "ab" and "b"
StrVals == {<<1>>, <<1, 2>>, <<2>>}
\* the elements of the sequence arguments: 1, nil, 3, nil, ...
Stock(n) == [i \in 1..n |-> IF i % 2 = 1 THEN Int_(i) ELSE Nil]
SeqVals == {Stock(n) : n \in 0..MaxSeqLen}

Values ==
    {Nil, Function("not")}
        \cup {Int_(i) : i \in IntVals}
        \cup {Flt(f) : f \in FltVals}
        \cup {Str(s) : s \in StrVals}
        \cup {Bool(b) : b \in BOOLEAN}
        \cup {List(l) : l \in SeqVals}
        \cup {Vector(l) : l \in SeqVals}

\* the largest number of arguments a builtin of the table demands exactly
\* (ensure_args(.., args, 2)); only the variadic builtins accept more
MaxArity == 2

\* the arguments of the slices longer than MaxArity, which only
\* + - * / and or can accept: Ints of both signs and zero, one Flt, the two
\* Bools and one value that is neither a number nor a Bool
CoreValues ==
    {Int_(-1), Int_(0), Int_(2), Flt(F(3, 2)), Str(<<1>>), Bool(TRUE),
     Bool(FALSE)}

\* slices up to MaxArity range over all of Values, longer ones over
\* CoreValues
ArgSeqs ==
    UNION {[1..n -> Values] : n \in 0..MaxArity}
        \cup UNION {[1..n -> CoreValues] : n \in (MaxArity + 1)..MaxArgs}

\* The text of one line, by its shape: the strings "exit" and "quit", the
\* empty line, a line the parser rejects, a literal, an unbound symbol, and
\* an application "(f a1 ... an)" of a builtin to literals.
Lines ==
    {[form |-> t] : t \in {"exit", "quit", "empty", "malformed", "symbol"}}
        \cup {[form |-> "atom", v |-> v] : v \in CoreValues}
        \cup {[form |-> "call", f |-> f, as |-> as] :
                  f \in Builtins, as \in ArgSeqs}

\* what rl.readline(prompt) returns
ReadOutcomes ==
    {[r |-> "Ok", line |-> l] : l \in Lines}
        \cup {[r |-> "Interrupted"], [r |-> "Eof"], [r |-> "Other"]}

None == [tag |-> "None"]
NoLine == [r |-> "None"]

(***************************************************************************)
(* SpecOps: one call of a builtin.                                         *)
(***************************************************************************)
InitOps ==
    /\ pc = "call"
    /\ fname \in Builtins
    /\ args \in ArgSeqs
    /\ ret = None
    /\ stdout = <<>>
    /\ readline = NoLine
    /\ result = None

\* f(args, env): args is borrowed immutably, the Result comes back unless the
\* call panics
Call ==
    /\ pc = "call"
    /\ ret' = Apply(fname, args)
    /\ stdout' = stdout \o ApplyOut(fname, args)
    /\ pc' = IF IsPanic(ret') THEN "panicked" ELSE "returned"
    /\ UNCHANGED <<fname, args, readline, result>>

NextOps == Call

SpecOps == InitOps /\ [][NextOps]_vars

(***************************************************************************)
(* Spec: the loop of main().                                               *)
(***************************************************************************)
\* parse::parse_Lang(&line).map_err(|e| e.into()).and_then(|x| x.eval())
EvalLine(line) ==
    CASE line.form = "malformed" -> ErrParse
      [] line.form = "empty" -> ErrEof
      [] line.form = "symbol" -> ErrMsg("undefined symbol")
      [] line.form = "atom" -> Ok(line.v)
      [] line.form = "call" -> Apply(line.f, line.as)
      [] OTHER -> ErrMsg("undefined symbol")

\* what evaluating the line writes to standard output
EvalOut(line) ==
    IF line.form = "call" THEN ApplyOut(line.f, line.as) ELSE <<>>

\* line == "exit" || line == "quit"
IsQuitLine(line) == line.form \in {"exit", "quit"}

\* the report, had the error of the line been dropped unprinted
Report_silent(res) ==
    IF IsOk(res) THEN <<[shown |-> "value", of |-> res.val]>> ELSE <<>>

\* .map(|v| println!("{}", v)).map_err(|e| println!("{}", e))
Report(res) ==
    IF IsOk(res) THEN <<[shown |-> "value", of |-> res.val]>>
    ELSE <<[shown |-> "error", of |-> res]>>

Init ==
    /\ pc = "readline"
    /\ readline = NoLine
    /\ result = None
    /\ stdout = <<>>
    /\ fname = "not"
    /\ args = <<>>
    /\ ret = None

\* let readline = rl.readline(prompt);
ReadLine ==
    /\ pc = "readline"
    /\ readline' \in ReadOutcomes
    /\ pc' = "match"
    /\ UNCHANGED <<result, stdout, fname, args, ret>>

\* Ok(line) => { ... }: stdout and result hold what this iteration wrote and
\* computed
MatchOk ==
    /\ pc = "match"
    /\ readline.r = "Ok"
    /\ IF IsQuitLine(readline.line)
       THEN /\ pc' = "returned"
            /\ UNCHANGED <<result, stdout>>
       ELSE LET res == EvalLine(readline.line)
            IN  /\ result' = res
                /\ IF IsPanic(res)
                   THEN /\ stdout' = stdout \o EvalOut(readline.line)
                        /\ pc' = "panicked"
                   ELSE /\ stdout' =
                              stdout \o EvalOut(readline.line) \o Report(res)
                        /\ pc' = "continue"
    /\ UNCHANGED <<readline, fname, args, ret>>

\* Err(RLError::Interrupted) | Err(RLError::Eof) => break
MatchInterrupted ==
    /\ pc = "match"
    /\ readline.r \in {"Interrupted", "Eof"}
    /\ pc' = "returned"
    /\ UNCHANGED <<readline, result, stdout, fname, args, ret>>

\* Err(err) => { println!("Error: {:?}", err); break }
MatchErr ==
    /\ pc = "match"
    /\ readline.r = "Other"
    /\ stdout' = stdout \o <<[shown |-> "readline error", of |-> readline]>>
    /\ pc' = "returned"
    /\ UNCHANGED <<readline, result, fname, args, ret>>

\* the end of the loop body: readline and the Result are dropped, and the
\* loop starts over
NextIteration ==
    /\ pc = "continue"
    /\ pc' = "readline"
    /\ readline' = NoLine
    /\ result' = None
    /\ stdout' = <<>>
    /\ UNCHANGED <<fname, args, ret>>

Next ==
    \/ ReadLine
    \/ MatchOk
    \/ MatchInterrupted
    \/ MatchErr
    \/ NextIteration

Spec == Init /\ [][Next]_vars

(***************************************************************************)
(* Properties of the builtins, read in the states of SpecOps after the     *)
(* call (pc # "call").                                                     *)
(***************************************************************************)
Called(f) == pc # "call" /\ fname = f
AllInt(as) == \A i \in 1..Len(as) : as[i].k = "Int"
IsSeq(x) == x.k \in {"List", "Vector"}

\* C1: cons called with exactly the two arguments (x, s) returns a sequence
\* of the kind of s: the List with x inserted at the front of s, or the
\* Vector with x pushed at the end of s.
C1_ConsReturnsSequence ==
    (Called("cons") /\ Len(args) = 2 /\ IsSeq(args[2])) =>
        ret = IF args[2].k = "List"
              THEN Ok(List(<<args[1]>> \o args[2].v))
              ELSE Ok(Vector(args[2].v \o <<args[1]>>))

\* C3: in integer mode div returns a "division by zero" error whenever a
\* divisor is zero: any argument after the first when there are two or more,
\* the single argument in the one-argument inverse form.
C3_IntDivByZeroIsError ==
    (/\ Called("/")
     /\ AllInt(args)
     /\ \/ Len(args) = 1 /\ args[1].v = 0
        \/ \E i \in 2..Len(args) : args[i].v = 0) =>
        ret = ErrMsg("division by zero")

\* C4: every builtin, on an argument slice of any length and any types,
\* returns a value or an error; it never aborts the evaluation.
C4_BuiltinsAlwaysReturn ==
    pc # "call" => (pc = "returned" /\ ret.tag \in {"Ok", "Err"})

\* the integer result the claim C5 names for operator f on the Ints as
IntForm(f, as) ==
    LET ints == [i \in 1..Len(as) |-> as[i].v]
    IN  CASE f = "+" -> fold_i64("+", 0, ints)
          [] f = "-" -> IF Len(ints) = 1 THEN -ints[1]
                        ELSE fold_i64("-", ints[1], From1(ints))
          [] f = "*" -> fold_i64("*", 1, ints)
          [] f = "/" -> IF \E i \in 2..Len(ints) : ints[i] = 0 THEN 0
                        ELSE fold_i64("/", ints[1], From1(ints))

\* C5: + - * / on a slice their arity check accepts: all Int arguments give
\* the Int result of the integer form; an argument that is neither Int nor
\* Flt gives a type error and no value.
C5_IntegerFormAndTypeError ==
    (/\ pc # "call"
     /\ fname \in {"+", "-", "*", "/"}
     /\ fname \in {"-", "/"} => Len(args) >= 1) =>
        /\ AllInt(args) =>
              /\ IsOk(ret)
              /\ ret.val.k = "Int"
              /\ ret.val.v = IntForm(fname, args)
        /\ (\E i \in 1..Len(args) : ~is_num(args[i])) =>
              /\ IsErr(ret)
              /\ ret.kind = "Msg"
              /\ ret.msg \in {"#[" \o f \o "] expected numeric" :
                                 f \in {"+", "-", "*", "/"}}

\* a < b for two operands of the same kind among Int, Flt and Str, stated
\* on the values: integers, finite fractions, and strings by their first
\* difference
RefLess(a, b) ==
    CASE a.k = "Int" -> a.v < b.v
      [] a.k = "Flt" -> a.v.n * b.v.d < b.v.n * a.v.d
      [] a.k = "Str" ->
            \E i \in 1..Len(b.v) :
                /\ i - 1 <= Len(a.v)
                /\ SubSeq(a.v, 1, i - 1) = SubSeq(b.v, 1, i - 1)
                /\ (i > Len(a.v) \/ a.v[i] < b.v[i])

RefCompare(f, a, b) ==
    CASE f = "<" -> RefLess(a, b)
      [] f = "<=" -> ~RefLess(b, a)
      [] f = ">" -> RefLess(b, a)
      [] f = ">=" -> ~RefLess(a, b)

\* C6: each of < <= > >= returns an error unless it gets exactly two
\* arguments; with two it returns the Bool of the comparison only for an
\* Int/Int, Flt/Flt or Str/Str pair, and a comparison-undefined error for
\* every other pair, Int with Flt included.
C6_OrderingSameTypeOnly ==
    (pc # "call" /\ fname \in {"<", "<=", ">", ">="}) =>
        IF Len(args) # 2
        THEN IsErr(ret) /\ ret.kind = "Msg"
        ELSE IF args[1].k = args[2].k /\ args[1].k \in {"Int", "Flt", "Str"}
        THEN ret = Ok(Bool(RefCompare(fname, args[1], args[2])))
        ELSE /\ IsErr(ret)
             /\ ret.kind = "Msg"
             /\ ret.msg = "comparison undefined for: {}, {}"
             /\ ret.a = args[1]
             /\ ret.b = args[2]

W6_IntWithFltUndefined ==
    /\ Called("<")
    /\ args = <<Int_(1), Flt(F(3, 2))>>
    /\ IsErr(ret)

\* what first and rest return for one List or Vector argument
C9_Inv ==
    (pc # "call" /\ fname \in {"first", "rest"}
        /\ Len(args) = 1 /\ IsSeq(args[1])) =>
        LET s == args[1]
        IN  IF s.v = <<>> THEN ret = Ok(Nil)
            ELSE IF fname = "first" THEN ret = Ok(s.v[1])
            ELSE /\ IsOk(ret)
                 /\ ret.val.k = s.k
                 /\ Len(ret.val.v) = Len(s.v) - 1
                 /\ \A i \in 1..Len(ret.val.v) : ret.val.v[i] = s.v[i + 1]

\* C9: first and rest of an empty List or Vector are Nil and no error; of a
\* non-empty one, first is its element at position 0 and rest is a sequence
\* of the same kind with all elements but the first, in order; the argument
\* is left unchanged.
C9_FirstRestUniform == []C9_Inv /\ [][args' = args]_vars

W9_RestOfVector ==
    /\ Called("rest")
    /\ args = <<Vector(Stock(3))>>
    /\ ret = Ok(Vector(<<Nil, Int_(3)>>))

\* C10: and / or give a type error as soon as one argument, at any
\* position, is not a Bool, even when the Bools before it decide the
\* outcome; on Bools only, and is true exactly when all are true and or
\* exactly when one is.
C10_AndOrStrictBool ==
    (pc # "call" /\ fname \in {"and", "or"}) =>
        IF \E i \in 1..Len(args) : args[i].k # "Bool"
        THEN ret = ErrMsg("#[" \o fname \o "] expected boolean argument")
        ELSE ret = Ok(Bool(IF fname = "and"
                           THEN \A i \in 1..Len(args) : args[i].v
                           ELSE \E i \in 1..Len(args) : args[i].v))

W10_NoShortCircuit ==
    /\ Called("and")
    /\ args = <<Bool(FALSE), Int_(1)>>
    /\ IsErr(ret)

(***************************************************************************)
(* Properties of the loop, read in the states of Spec.                     *)
(***************************************************************************)
\* a parse error or an evaluation error
OrdinaryError(r) == IsErr(r) /\ r.kind \in {"Msg", "Parse"}

\* C2: a line that reaches exit with no arguments ends the loop, and the
\* process with code 0, without the Exit(0) being printed and without a
\* further prompt.
C2_ExitEndsLoop ==
    (/\ pc # "match"
     /\ readline.r = "Ok"
     /\ readline.line = [form |-> "call", f |-> "exit", as |-> <<>>]) =>
        (pc = "returned" /\ stdout = <<>>)

\* what the loop has done with the line, and where it stands
C7_Inv ==
    /\ OrdinaryError(result) =>
          /\ pc = "continue"
          /\ stdout = <<[shown |-> "error", of |-> result]>>
    /\ (readline.r \in {"Interrupted", "Eof"} /\ pc # "match") =>
          pc = "returned"
    /\ pc = "readline" => ENABLED ReadLine

\* C7: a line that fails with an ordinary error has the error printed and
\* no value, and the loop goes on to read the next line; the loop ends when
\* the line reader reports an interrupt or end-of-input.
C7_OrdinaryErrorContinues ==
    []C7_Inv /\ [][pc = "continue" => pc' = "readline"]_vars

W7_ErrorThenPrompt ==
    /\ pc = "continue"
    /\ result = ErrMsg("division by zero")
    /\ stdout = <<[shown |-> "error", of |-> result]>>

\* C8: the only line content that stops the loop is one whose evaluation
\* yields the Exit(code) of the exit builtin.
C8_OnlyExitStopsLoop ==
    (pc \in {"returned", "panicked"} /\ readline.r = "Ok") =>
        (IsErr(result) /\ result.kind = "Exit")

====
